---- MODULE Spec2Model ----
(***************************************************************************)
(* Model of extract_data.py: the extraction of employee-assessment records *)
(* from the slides and tables of a presentation.                           *)
(*                                                                         *)
(* Text is modelled as a sequence of characters (one-character strings),   *)
(* so that lower(), strip(), replace(), substring tests and the regular    *)
(* expressions of the source are computed, not assumed.  A float is the    *)
(* exact decimal it was parsed from: [n |-> digits, e |-> number of        *)
(* fraction digits], with trailing fraction zeros removed (4.50 = 4.5).    *)
(* A Python dict is a function whose DOMAIN is its set of keys.            *)
(***************************************************************************)
EXTENDS Integers, Sequences, FiniteSets, TLC

\* ------------------------------------------------------------------ bounds
MaxTables == 3
MaxHeaderLen == 3
MaxTeamShapes == 2
MaxColIdx == 5

\* ---------------------------------------------------- characters and text
NBSP == "nbsp"
UpperChars == <<"A", "B", "C", "D", "E", "F", "G", "H", "I", "J", "K", "L", "M", "N", "O", "P", "Q", "R", "S", "T", "U", "V", "W", "X", "Y", "Z">>
LowerChars == <<"a", "b", "c", "d", "e", "f", "g", "h", "i", "j", "k", "l", "m", "n", "o", "p", "q", "r", "s", "t", "u", "v", "w", "x", "y", "z">>
DigitChars == <<"0", "1", "2", "3", "4", "5", "6", "7", "8", "9">>
SpaceChars == {" ", NBSP, "\t", "\n"}

\* string literals of the source
sUnassigned == <<"U", "n", "a", "s", "s", "i", "g", "n", "e", "d">>
sQAQC == <<"Q", "A", "/", "Q", "C">>
sRnD == <<"R", "&", "D">>
sBatteryDevelopment == <<"B", "a", "t", "t", "e", "r", "y", " ", "D", "e", "v", "e", "l", "o", "p", "m", "e", "n", "t">>
sProduction == <<"P", "r", "o", "d", "u", "c", "t", "i", "o", "n">>
kQaqc == <<"q", "a", "/", "q", "c">>
kRnd == <<"r", "&", "d">>
kBattDev == <<"b", "a", "t", "t", " ", "d", "e", "v">>
kBatteryDevelopment == <<"b", "a", "t", "t", "e", "r", "y", " ", "d", "e", "v", "e", "l", "o", "p", "m", "e", "n", "t">>
kProduction == <<"p", "r", "o", "d", "u", "c", "t", "i", "o", "n">>
kPerformance == <<"p", "e", "r", "f", "o", "r", "m", "a", "n", "c", "e">>
kQuantification == <<"q", "u", "a", "n", "t", "i", "f", "i", "c", "a", "t", "i", "o", "n">>
kRating == <<"r", "a", "t", "i", "n", "g">>
kScore == <<"s", "c", "o", "r", "e">>
kReason == <<"r", "e", "a", "s", "o", "n">>
kWeight == <<"w", "e", "i", "g", "h", "t">>
kComments == <<"c", "o", "m", "m", "e", "n", "t", "s">>
kNotes == <<"n", "o", "t", "e", "s">>
kEmployeeName == <<"e", "m", "p", "l", "o", "y", "e", "e", " ", "n", "a", "m", "e">>
kEmployeeNameMarker == <<"(", "e", "m", "p", "l", "o", "y", "e", "e", " ", "n", "a", "m", "e", ")">>
kRole == <<"r", "o", "l", "e">>
kRoleMarker == <<"(", "r", "o", "l", "e", ")">>
kQuality == <<"q", "u", "a", "l", "i", "t", "y">>
kProductivity == <<"p", "r", "o", "d", "u", "c", "t", "i", "v", "i", "t", "y">>
kAttendance == <<"a", "t", "t", "e", "n", "d", "a", "n", "c", "e">>
kSkill == <<"s", "k", "i", "l", "l">>
kTeamwork == <<"t", "e", "a", "m", "w", "o", "r", "k">>
kWeightedFinalScore == <<"w", "e", "i", "g", "h", "t", "e", "d", " ", "f", "i", "n", "a", "l", " ", "s", "c", "o", "r", "e">>
kRecommendedSalaryIncrease == <<"r", "e", "c", "o", "m", "m", "e", "n", "d", "e", "d", " ", "s", "a", "l", "a", "r", "y", " ", "i", "n", "c", "r", "e", "a", "s", "e">>
kManagerComments == <<"m", "a", "n", "a", "g", "e", "r", " ", "c", "o", "m", "m", "e", "n", "t", "s">>
kPercent == <<"%">>

LowerChar(c) ==
  IF \E i \in 1..26 : UpperChars[i] = c
  THEN LowerChars[CHOOSE i \in 1..26 : UpperChars[i] = c]
  ELSE c

\* str.lower()
Lower(s) == [i \in 1..Len(s) |-> LowerChar(s[i])]

\* str.strip(): removes leading and trailing whitespace (U+00A0 included)
Strip(s) ==
  LET keep == {i \in 1..Len(s) : s[i] \notin SpaceChars}
  IN IF keep = {} THEN <<>>
     ELSE LET lo == CHOOSE i \in keep : \A j \in keep : i <= j
              hi == CHOOSE i \in keep : \A j \in keep : j <= i
          IN SubSeq(s, lo, hi)

\* str.replace('\xa0', ' ')
ReplaceNbsp(s) == [i \in 1..Len(s) |-> IF s[i] = NBSP THEN " " ELSE s[i]]

\* sub in s
Contains(s, sub) ==
  \E i \in 1..(Len(s) - Len(sub) + 1) : SubSeq(s, i, i + Len(sub) - 1) = sub

clean_text(text) ==
  IF text = <<>> THEN <<>> ELSE Strip(ReplaceNbsp(text))

\* re.sub(pat, "", s, flags=re.IGNORECASE) for a literal pattern pat
RECURSIVE ReSubIgnoreCase(_, _)
ReSubIgnoreCase(pat, s) ==
  LET hits == {i \in 1..(Len(s) - Len(pat) + 1) :
                 Lower(SubSeq(s, i, i + Len(pat) - 1)) = pat}
  IN IF hits = {} THEN s
     ELSE LET i == CHOOSE h \in hits : \A g \in hits : h <= g
          IN SubSeq(s, 1, i - 1)
               \o ReSubIgnoreCase(pat, SubSeq(s, i + Len(pat), Len(s)))

\* " ".join(cells)
RECURSIVE JoinSpace(_)
JoinSpace(cells) ==
  IF cells = <<>> THEN <<>>
  ELSE IF Len(cells) = 1 THEN cells[1]
  ELSE cells[1] \o <<" ">> \o JoinSpace(Tail(cells))

\* ------------------------------------------------------------------ floats
IsDigit(c) == \E i \in 1..10 : DigitChars[i] = c
DigitVal(c) == (CHOOSE i \in 1..10 : DigitChars[i] = c) - 1

RECURSIVE DigitsToNat(_)
DigitsToNat(ds) ==
  IF ds = <<>> THEN 0
  ELSE 10 * DigitsToNat(SubSeq(ds, 1, Len(ds) - 1)) + DigitVal(ds[Len(ds)])

\* end of the maximal run of digits that starts at position i
RECURSIVE DigitRunEnd(_, _)
DigitRunEnd(s, i) ==
  IF i + 1 <= Len(s) /\ IsDigit(s[i + 1]) THEN DigitRunEnd(s, i + 1) ELSE i

RECURSIVE DropTrailingZeros(_)
DropTrailingZeros(ds) ==
  IF ds # <<>> /\ ds[Len(ds)] = "0"
  THEN DropTrailingZeros(SubSeq(ds, 1, Len(ds) - 1))
  ELSE ds

\* float(intDigits "." fracDigits)
Float(intDigits, fracDigits) ==
  LET f == DropTrailingZeros(fracDigits)
  IN [n |-> DigitsToNat(intDigits \o f), e |-> Len(f)]

Zero == Float(<<"0">>, <<"0">>)

\* re.search(r"(\d+(\.\d+)?)", str(text)) and float(match.group(1))
extract_score(text) ==
  LET starts == {i \in 1..Len(text) : IsDigit(text[i])}
  IN IF starts = {} THEN Zero
     ELSE LET i == CHOOSE a \in starts : \A b \in starts : a <= b
              j == DigitRunEnd(text, i)
              hasFrac == /\ j + 2 <= Len(text)
                         /\ text[j + 1] = "."
                         /\ IsDigit(text[j + 2])
              k == IF hasFrac THEN DigitRunEnd(text, j + 2) ELSE j
          IN Float(SubSeq(text, i, j),
                   IF hasFrac THEN SubSeq(text, j + 2, k) ELSE <<>>)

extract_percent(text) == extract_score(text)

\* ------------------------------------------------------------- dictionaries
None == <<>>
Has(rec, key) == key \in DOMAIN rec
Put(rec, key, val) ==
  [k \in (DOMAIN rec) \cup {key} |-> IF k = key THEN val ELSE rec[k]]

ScoreFields == {"Quality Score", "Productivity Score", "Attendance Score",
                "Skill Score", "Teamwork Score", "Weighted Score",
                "Salary Increase"}
TextFields == {"Employee Name", "Team", "Role", "Quality Notes",
               "Productivity Notes", "Attendance Notes", "Skill Notes",
               "Teamwork Notes", "Manager Notes"}
Fields == ScoreFields \cup TextFields

\* ------------------------------------------------- team section detector
\* slide_text += shape.text + " " over the text-bearing shapes of the slide
RECURSIVE SlideText(_)
SlideText(shapes) ==
  IF shapes = <<>> THEN <<>>
  ELSE shapes[1] \o <<" ">> \o SlideText(Tail(shapes))

\* the detector with a reset to the initial team when no rule matches
DetectTeamReset(slideText, team) ==
  LET low == Strip(Lower(slideText))
  IN IF Contains(low, kQaqc) /\ Len(slideText) < 100 THEN sQAQC
     ELSE IF Contains(low, kRnd) /\ Len(slideText) < 100 THEN sRnD
     ELSE IF (Contains(low, kBattDev) \/ Contains(low, kBatteryDevelopment))
             /\ Len(slideText) < 100 THEN sBatteryDevelopment
     ELSE IF Contains(low, kProduction) /\ Len(slideText) < 50 THEN sProduction
     ELSE sUnassigned

\* the detector with the length limits included (<= instead of <)
DetectTeamInclusive(slideText, team) ==
  LET low == Strip(Lower(slideText))
  IN IF Contains(low, kQaqc) /\ Len(slideText) <= 100 THEN sQAQC
     ELSE IF Contains(low, kRnd) /\ Len(slideText) <= 100 THEN sRnD
     ELSE IF (Contains(low, kBattDev) \/ Contains(low, kBatteryDevelopment))
             /\ Len(slideText) <= 100 THEN sBatteryDevelopment
     ELSE IF Contains(low, kProduction) /\ Len(slideText) <= 50 THEN sProduction
     ELSE team

DetectTeam(slideText, team) ==
  LET low == Strip(Lower(slideText))
  IN IF Contains(low, kQaqc) /\ Len(slideText) < 100 THEN sQAQC
     ELSE IF Contains(low, kRnd) /\ Len(slideText) < 100 THEN sRnD
     ELSE IF (Contains(low, kBattDev) \/ Contains(low, kBatteryDevelopment))
             /\ Len(slideText) < 100 THEN sBatteryDevelopment
     ELSE IF Contains(low, kProduction) /\ Len(slideText) < 50 THEN sProduction
     ELSE team

\* ------------------------------------------------------- table classifier
\* Column indices are 0-based as in the source; -1 means "not found".
\* the row-count test with only the empty table skipped
SkipTableEmptyOnly(t) == Len(t) < 1

SkipTable(t) == Len(t) < 2

HeaderCells(t) == [j \in 1..Len(t[1]) |-> Strip(Lower(t[1][j]))]

IsRatingHeader(h) ==
  Contains(h, kPerformance) \/ Contains(h, kQuantification) \/ Contains(h, kRating)

RECURSIVE ScoreWeightPass(_, _, _)
ScoreWeightPass(hs, idx, acc) ==
  IF idx >= Len(hs) THEN acc
  ELSE LET h  == hs[idx + 1]
           a1 == IF Contains(h, kScore) /\ ~Contains(h, kReason) THEN idx ELSE acc
           a2 == IF Contains(h, kWeight) THEN idx ELSE a1
       IN ScoreWeightPass(hs, idx + 1, a2)

\* the header scan with a "weight" column winning over every "score" column
ScoreColIdxWeightWins(hs) ==
  LET hits    == {idx \in 0..(Len(hs) - 1) : IsRatingHeader(hs[idx + 1])}
      weights == {idx \in 0..(Len(hs) - 1) : Contains(hs[idx + 1], kWeight)}
      scores  == {idx \in 0..(Len(hs) - 1) :
                    Contains(hs[idx + 1], kScore) /\ ~Contains(hs[idx + 1], kReason)}
  IN IF hits # {} THEN CHOOSE a \in hits : \A b \in hits : a <= b
     ELSE IF weights # {} THEN CHOOSE a \in weights : \A b \in weights : b <= a
     ELSE IF scores # {} THEN CHOOSE a \in scores : \A b \in scores : b <= a
     ELSE -1

\* the header scan with the score/weight pass run after every rating pass
ScoreColIdxSecondPassAlways(hs) ==
  LET hits   == {idx \in 0..(Len(hs) - 1) : IsRatingHeader(hs[idx + 1])}
      first  == IF hits # {} THEN CHOOSE a \in hits : \A b \in hits : a <= b ELSE -1
  IN ScoreWeightPass(hs, 0, first)

ScoreColIdx(hs) ==
  LET hits == {idx \in 0..(Len(hs) - 1) : IsRatingHeader(hs[idx + 1])}
  IN IF hits # {} THEN CHOOSE a \in hits : \A b \in hits : a <= b
     ELSE ScoreWeightPass(hs, 0, -1)

RECURSIVE NotesPass(_, _, _)
NotesPass(hs, idx, acc) ==
  IF idx >= Len(hs) THEN acc
  ELSE LET h == hs[idx + 1]
       IN NotesPass(hs, idx + 1,
                    IF Contains(h, kComments) \/ Contains(h, kNotes)
                       \/ Contains(h, kReason)
                    THEN idx ELSE acc)

NotesColIdx(hs) == NotesPass(hs, 0, -1)

HasNameRow(t) ==
  \E r \in 1..Len(t) :
     Len(t[r]) > 0 /\ Contains(Lower(t[r][1]), kEmployeeName)

\* --------------------------------------------------------- field extractor
\* the score lookup without the fallbacks when the index is past the row's end
get_score_no_fallback(cells, idx) ==
  IF idx # -1 THEN (IF idx < Len(cells) THEN extract_score(cells[idx + 1]) ELSE Zero)
  ELSE IF Len(cells) = 2 THEN extract_score(cells[2])
  ELSE IF Len(cells) > 2 /\ Contains(cells[2], kPercent) THEN extract_score(cells[3])
  ELSE Zero

\* the score fallback with cell 1 parsed in every row of more than 2 cells
get_score_cell1(cells, idx) ==
  IF idx # -1 /\ idx < Len(cells) THEN extract_score(cells[idx + 1])
  ELSE IF Len(cells) >= 2 THEN extract_score(cells[2])
  ELSE Zero

get_score(cells, idx) ==
  IF idx # -1 /\ idx < Len(cells) THEN extract_score(cells[idx + 1])
  ELSE IF Len(cells) = 2 THEN extract_score(cells[2])
  ELSE IF Len(cells) > 2 /\ Contains(cells[2], kPercent) THEN extract_score(cells[3])
  ELSE Zero

\* the notes lookup with the last-cell fallback for every invalid index
get_notes_any_invalid(cells, idx) ==
  IF idx # -1 /\ idx < Len(cells) THEN cells[idx + 1]
  ELSE IF Len(cells) > 4 THEN cells[5]
  ELSE IF Len(cells) > 2 THEN cells[Len(cells)]
  ELSE <<>>

get_notes(cells, idx) ==
  IF idx # -1 /\ idx < Len(cells) THEN cells[idx + 1]
  ELSE IF Len(cells) > 4 THEN cells[5]
  ELSE IF Len(cells) > 2 /\ idx = -1 THEN cells[Len(cells)]
  ELSE <<>>

\* the value of an "employee name" or "role" row
LabelValue(cells, label, marker) ==
  LET c0 == Lower(cells[1])
  IN IF Contains(c0, marker) THEN Strip(ReSubIgnoreCase(marker, cells[1]))
     ELSE IF c0 = label /\ Len(cells) > 1 THEN Strip(cells[2])
     ELSE Strip(cells[1])

\* the category row with an unguarded "notes" test after it
CategoryRowThenNotes(rec, cells, sIdx, nIdx, scoreKey, notesKey) ==
  LET r == Put(Put(rec, scoreKey, get_score(cells, sIdx)), notesKey, get_notes(cells, nIdx))
  IN IF Contains(Lower(cells[1]), kNotes)
     THEN Put(r, "Manager Notes", Strip(JoinSpace(Tail(cells))))
     ELSE r

CategoryRow(rec, cells, sIdx, nIdx, scoreKey, notesKey) ==
  Put(Put(rec, scoreKey, get_score(cells, sIdx)), notesKey, get_notes(cells, nIdx))

SalaryIncrease(cells, sIdx) ==
  LET val == get_score(cells, sIdx)
  IN IF val = Zero /\ Len(cells) > 1 THEN extract_percent(cells[2]) ELSE val

\* the row dispatch with an unmatched label stored as manager notes
ApplyRowDefaultNotes(rec, row, sIdx, nIdx) ==
  LET cells == [j \in 1..Len(row) |-> clean_text(row[j])]
  IN IF cells = <<>> THEN rec
     ELSE LET header == Lower(cells[1])
          IN IF Contains(header, kEmployeeName)
               THEN Put(rec, "Employee Name",
                        LabelValue(cells, kEmployeeName, kEmployeeNameMarker))
             ELSE IF Contains(header, kRole)
               THEN Put(rec, "Role", LabelValue(cells, kRole, kRoleMarker))
             ELSE IF Contains(header, kQuality)
               THEN CategoryRow(rec, cells, sIdx, nIdx, "Quality Score", "Quality Notes")
             ELSE IF Contains(header, kProductivity)
               THEN CategoryRow(rec, cells, sIdx, nIdx, "Productivity Score", "Productivity Notes")
             ELSE IF Contains(header, kAttendance)
               THEN CategoryRow(rec, cells, sIdx, nIdx, "Attendance Score", "Attendance Notes")
             ELSE IF Contains(header, kSkill)
               THEN CategoryRow(rec, cells, sIdx, nIdx, "Skill Score", "Skill Notes")
             ELSE IF Contains(header, kTeamwork)
               THEN CategoryRow(rec, cells, sIdx, nIdx, "Teamwork Score", "Teamwork Notes")
             ELSE IF Contains(header, kWeightedFinalScore)
               THEN Put(rec, "Weighted Score", get_score(cells, sIdx))
             ELSE IF Contains(header, kRecommendedSalaryIncrease)
               THEN Put(rec, "Salary Increase", SalaryIncrease(cells, sIdx))
             ELSE IF Contains(header, kManagerComments) \/ Contains(header, kNotes)
               THEN Put(rec, "Manager Notes", Strip(JoinSpace(Tail(cells))))
             ELSE Put(rec, "Manager Notes", Strip(JoinSpace(Tail(cells))))

\* one iteration of "for row in table.rows" on the active record
ApplyRow(rec, row, sIdx, nIdx) ==
  LET cells == [j \in 1..Len(row) |-> clean_text(row[j])]
  IN IF cells = <<>> THEN rec
     ELSE LET header == Lower(cells[1])
          IN IF Contains(header, kEmployeeName)
               THEN Put(rec, "Employee Name",
                        LabelValue(cells, kEmployeeName, kEmployeeNameMarker))
             ELSE IF Contains(header, kRole)
               THEN Put(rec, "Role", LabelValue(cells, kRole, kRoleMarker))
             ELSE IF Contains(header, kQuality)
               THEN CategoryRow(rec, cells, sIdx, nIdx, "Quality Score", "Quality Notes")
             ELSE IF Contains(header, kProductivity)
               THEN CategoryRow(rec, cells, sIdx, nIdx, "Productivity Score", "Productivity Notes")
             ELSE IF Contains(header, kAttendance)
               THEN CategoryRow(rec, cells, sIdx, nIdx, "Attendance Score", "Attendance Notes")
             ELSE IF Contains(header, kSkill)
               THEN CategoryRow(rec, cells, sIdx, nIdx, "Skill Score", "Skill Notes")
             ELSE IF Contains(header, kTeamwork)
               THEN CategoryRow(rec, cells, sIdx, nIdx, "Teamwork Score", "Teamwork Notes")
             ELSE IF Contains(header, kWeightedFinalScore)
               THEN Put(rec, "Weighted Score", get_score(cells, sIdx))
             ELSE IF Contains(header, kRecommendedSalaryIncrease)
               THEN Put(rec, "Salary Increase", SalaryIncrease(cells, sIdx))
             ELSE IF Contains(header, kManagerComments) \/ Contains(header, kNotes)
               THEN Put(rec, "Manager Notes", Strip(JoinSpace(Tail(cells))))
             ELSE rec

RECURSIVE ApplyRows(_, _, _, _)
ApplyRows(rec, rows, sIdx, nIdx) ==
  IF rows = <<>> THEN rec
  ELSE ApplyRows(ApplyRow(rec, rows[1], sIdx, nIdx), Tail(rows), sIdx, nIdx)

\* ------------------------------------------------------ record accumulator
\* the validity test without the placeholder comparison
IsValidAnyName(rec) ==
  /\ rec # None
  /\ Has(rec, "Employee Name")
  /\ Strip(rec["Employee Name"]) # <<>>

IsValid(rec) ==
  /\ rec # None
  /\ Has(rec, "Employee Name")
  /\ Strip(rec["Employee Name"]) # <<>>
  /\ rec["Employee Name"] # sUnassigned

\* the flush with the record put in front of the output list
FlushFront(out, rec) == IF IsValid(rec) THEN <<rec>> \o out ELSE out

Flush(out, rec) == IF IsValid(rec) THEN Append(out, rec) ELSE out

\* the new record with the initial team instead of the current one
NewRecordUnassigned(team) == [k \in {"Team"} |-> sUnassigned]

NewRecord(team) == [k \in {"Team"} |-> team]

\* ---------------------------------------------------- deduplicator/exporter
\* pd.DataFrame(list of dicts): the columns are the keys that occur in some
\* dict; a row holds NaN in column c exactly when c is not in its DOMAIN.
Columns(rows) == UNION {DOMAIN rows[k] : k \in 1..Len(rows)}
DataFrame(rows) == [columns |-> Columns(rows), rows |-> rows]
IsNaN(frame, k, c) == c \notin DOMAIN frame.rows[k]

\* the deduplication with the last record of each name kept
RECURSIVE DropDuplicatesKeepLast(_, _)
DropDuplicatesKeepLast(rows, seen) ==
  IF rows = <<>> THEN <<>>
  ELSE IF \E k \in 2..Len(rows) : rows[k]["Employee Name"] = rows[1]["Employee Name"]
       THEN DropDuplicatesKeepLast(Tail(rows), seen)
       ELSE <<rows[1]>> \o DropDuplicatesKeepLast(Tail(rows), seen)

\* DataFrame.drop_duplicates(subset=['Employee Name']), keep='first'
RECURSIVE DropDuplicates(_, _)
DropDuplicates(rows, seen) ==
  IF rows = <<>> THEN <<>>
  ELSE LET name == rows[1]["Employee Name"]
       IN IF name \in seen THEN DropDuplicates(Tail(rows), seen)
          ELSE <<rows[1]>> \o DropDuplicates(Tail(rows), seen \cup {name})

PrintedColumns == {"Employee Name", "Team", "Weighted Score", "Salary Increase"}
NoFile == [written |-> FALSE, columns |-> {}, rows |-> <<>>]

\* ------------------------------------------------------------------ inputs
\* Cell and shape texts the documents of the model are built from.
xEmployeeName == <<"E", "m", "p", "l", "o", "y", "e", "e", " ", "N", "a", "m", "e">>
xAlice == <<"A", "l", "i", "c", "e">>
xBobMarker == <<"B", "o", "b", " ", "(", "E", "m", "p", "l", "o", "y", "e", "e", " ", "N", "a", "m", "e", ")">>
xBob == <<"B", "o", "b">>
xQuality == <<"Q", "u", "a", "l", "i", "t", "y">>
x45 == <<"4", ".", "5">>
xGood == <<"g", "o", "o", "d">>
xRole == <<"R", "o", "l", "e">>
xDev == <<"D", "e", "v">>
xQALead == <<"Q", "A", " ", "L", "e", "a", "d">>
xBlank == <<NBSP, " ">>
xNotes == <<"N", "o", "t", "e", "s">>
xNA == <<"n", "/", "a">>
xCategory == <<"C", "a", "t", "e", "g", "o", "r", "y">>
xWeightPct == <<"W", "e", "i", "g", "h", "t", " ", "%">>
xScore == <<"S", "c", "o", "r", "e">>
xScoreReason == <<"S", "c", "o", "r", "e", " ", "R", "e", "a", "s", "o", "n">>
xRating == <<"R", "a", "t", "i", "n", "g">>
xComments == <<"C", "o", "m", "m", "e", "n", "t", "s">>
xWeightedFinalScore == <<"W", "e", "i", "g", "h", "t", "e", "d", " ", "F", "i", "n", "a", "l", " ", "S", "c", "o", "r", "e">>
x41 == <<"4", ".", "1">>
xRecommendedSalaryIncrease == <<"R", "e", "c", "o", "m", "m", "e", "n", "d", "e", "d", " ", "S", "a", "l", "a", "r", "y", " ", "I", "n", "c", "r", "e", "a", "s", "e">>
x5pct == <<"5", "%">>
xOverview == <<"O", "v", "e", "r", "v", "i", "e", "w">>

tAlice == << <<xEmployeeName, xAlice>>, <<xQuality, x45, xGood>> >>
tBob == << <<xEmployeeName, xBob>> >>
tUnassigned == << <<xEmployeeName, sUnassigned>>, <<xRole, xDev>> >>
tBlank == << <<xEmployeeName, xBlank>>, <<xNotes, xNA>> >>
tScores == << <<xCategory, xWeightPct, xScore>>,
              <<xWeightedFinalScore, <<>>, x41>>,
              <<xRecommendedSalaryIncrease, x5pct>> >>
tBobRole == << <<xBobMarker>>, <<xRole, xQALead>> >>

Tables == {tAlice, tBob, tBobRole, tUnassigned, tBlank, tScores}

\* the text-bearing shapes of a slide, in shape order
SlideShapes == {<<sQAQC>>, <<sRnD>>, <<xOverview>>, <<xOverview, sQAQC>>}

RECURSIVE SeqsUpTo(_, _)
SeqsUpTo(S, n) ==
  IF n = 0 THEN {<<>>}
  ELSE LET shorter == SeqsUpTo(S, n - 1)
       IN shorter \cup {Append(s, x) : s \in shorter, x \in S}

xPerformance == <<"P", "e", "r", "f", "o", "r", "m", "a", "n", "c", "e">>
xQuantification == <<"Q", "u", "a", "n", "t", "i", "f", "i", "c", "a", "t", "i", "o", "n">>

HeaderTexts ==
  {xCategory, xWeightPct, xScore, xScoreReason, xRating, xComments,
   xPerformance, xQuantification}
HeaderRows == SeqsUpTo(HeaderTexts, MaxHeaderLen)

\* ------------------------------------------------------------------- state
VARIABLES
  pc,             \* position of main(): "loop", "done", "error"; "header", "columns" in SpecColumns
  text_shapes,    \* the texts of the text-bearing shapes of the current slide
  slide_text,     \* aggregated text of the current slide
  current_team,
  table,          \* the table last taken from a slide
  header_cells, score_col_idx, notes_col_idx, has_name,
  row,            \* the row last taken from a table
  active_record,
  data,           \* the output list
  data_ids,       \* for each entry of the output list, which created record (dict object) it is
  df,             \* the data frame built after the last slide
  csv,            \* the emitted dataset (employee_data.csv)
  step,           \* what the last step of main() was: "start", "slide", "table", "end"
  started,        \* every record created so far, in creation order, with its current content
  started_team,   \* current_team at the creation of each of them
  ntables         \* number of tables met so far

vars == <<pc, text_shapes, slide_text, current_team, table, header_cells,
          score_col_idx, notes_col_idx, has_name, row, active_record, data,
          data_ids, df, csv, step, started, started_team, ntables>>

Init ==
  /\ pc = "loop"
  /\ text_shapes = <<>>
  /\ slide_text = <<>>
  /\ current_team = sUnassigned
  /\ table = <<>>
  /\ header_cells = <<>>
  /\ score_col_idx = -1
  /\ notes_col_idx = -1
  /\ has_name = FALSE
  /\ row = <<>>
  /\ active_record = None
  /\ data = <<>>
  /\ data_ids = <<>>
  /\ df = DataFrame(<<>>)
  /\ csv = NoFile
  /\ step = "start"
  /\ started = <<>>
  /\ started_team = <<>>
  /\ ntables = 0

\* the current content of the last created record replaces its entry
SetLast(s, rec) == [s EXCEPT ![Len(s)] = rec]

\* Records are dict objects: the output list holds references to them, and a
\* write to an object shows through every reference to it.  An object is
\* identified by its position in the list of created records.

\* the active dict updated in place instead of a new dict being created
ReusedId(heap) == IF heap = <<>> THEN 1 ELSE Len(heap)

\* the identity of the dict that "active_record = {...}" creates: a new one
FreshId(heap) == Len(heap) + 1

Store(heap, id, val) ==
  IF id = Len(heap) + 1 THEN Append(heap, val) ELSE [heap EXCEPT ![id] = val]

\* data.append(active_record) appends the reference
FlushId(ids, rec, id) == IF Len(Flush(<<>>, rec)) = 1 THEN Append(ids, id) ELSE ids

WriteThrough(out, ids, id, rec) ==
  [j \in 1..Len(out) |-> IF j <= Len(ids) /\ ids[j] = id THEN rec ELSE out[j]]

\* --------------------------------------------------------------- operations
\* A slide is entered: its text is aggregated and the team detector runs.
NextSlide(shapes) ==
  /\ pc = "loop"
  /\ text_shapes' = shapes
  /\ slide_text' = SlideText(shapes)
  /\ current_team' = DetectTeam(SlideText(shapes), current_team)
  /\ step' = "slide"
  /\ UNCHANGED <<pc, table, header_cells, score_col_idx, notes_col_idx, has_name,
                 row, active_record, data, data_ids, df, csv, started,
                 started_team, ntables>>

\* A table of the current slide with fewer than 2 rows: "continue".
TableSkipped(t) ==
  /\ pc = "loop" /\ step # "start" /\ ntables < MaxTables
  /\ SkipTable(t)
  /\ table' = t
  /\ step' = "table"
  /\ ntables' = ntables + 1
  /\ UNCHANGED <<pc, text_shapes, slide_text, current_team, header_cells,
                 score_col_idx, notes_col_idx, has_name, row, active_record,
                 data, data_ids, df, csv, started, started_team>>

\* A table without a name row while no record is active: "continue".
TableOrphan(t) ==
  /\ pc = "loop" /\ step # "start" /\ ntables < MaxTables
  /\ ~SkipTable(t) /\ ~HasNameRow(t) /\ active_record = None
  /\ table' = t
  /\ header_cells' = HeaderCells(t)
  /\ score_col_idx' = ScoreColIdx(HeaderCells(t))
  /\ notes_col_idx' = NotesColIdx(HeaderCells(t))
  /\ has_name' = FALSE
  /\ row' = t[Len(t)]
  /\ step' = "table"
  /\ ntables' = ntables + 1
  /\ UNCHANGED <<pc, text_shapes, slide_text, current_team, active_record, data,
                 data_ids, df, csv, started, started_team>>

\* A table with a name row: flush the previous record, start a new one and
\* parse the rows of the table into it.
TableName(t) ==
  /\ pc = "loop" /\ step # "start" /\ ntables < MaxTables
  /\ ~SkipTable(t) /\ HasNameRow(t)
  /\ table' = t
  /\ header_cells' = HeaderCells(t)
  /\ score_col_idx' = ScoreColIdx(HeaderCells(t))
  /\ notes_col_idx' = NotesColIdx(HeaderCells(t))
  /\ has_name' = TRUE
  /\ row' = t[Len(t)]
  /\ active_record' = ApplyRows(NewRecord(current_team), t,
                                ScoreColIdx(HeaderCells(t)), NotesColIdx(HeaderCells(t)))
  /\ data_ids' = FlushId(data_ids, active_record, Len(started))
  /\ data' = WriteThrough(Flush(data, active_record), data_ids',
                          FreshId(started), active_record')
  /\ started' = Store(started, FreshId(started), active_record')
  /\ started_team' = Store(started_team, FreshId(started), current_team)
  /\ step' = "table"
  /\ ntables' = ntables + 1
  /\ UNCHANGED <<pc, text_shapes, slide_text, current_team, df, csv>>

\* the continuation that parses the rows only into a record with a valid name
TableContinuationValidOnly(t) ==
  /\ pc = "loop" /\ step # "start" /\ ntables < MaxTables
  /\ ~SkipTable(t) /\ ~HasNameRow(t) /\ active_record # None
  /\ table' = t
  /\ header_cells' = HeaderCells(t)
  /\ score_col_idx' = ScoreColIdx(HeaderCells(t))
  /\ notes_col_idx' = NotesColIdx(HeaderCells(t))
  /\ has_name' = FALSE
  /\ row' = t[Len(t)]
  /\ active_record' =
       IF IsValid(active_record)
         THEN ApplyRows(active_record, t,
                        ScoreColIdx(HeaderCells(t)), NotesColIdx(HeaderCells(t)))
         ELSE active_record
  /\ data' = WriteThrough(data, data_ids, Len(started), active_record')
  /\ started' = SetLast(started, active_record')
  /\ step' = "table"
  /\ ntables' = ntables + 1
  /\ UNCHANGED <<pc, text_shapes, slide_text, current_team, data_ids, df, csv,
                 started_team>>

\* A table without a name row while a record is active: parse its rows into
\* the active record.
TableContinuation(t) ==
  /\ pc = "loop" /\ step # "start" /\ ntables < MaxTables
  /\ ~SkipTable(t) /\ ~HasNameRow(t) /\ active_record # None
  /\ table' = t
  /\ header_cells' = HeaderCells(t)
  /\ score_col_idx' = ScoreColIdx(HeaderCells(t))
  /\ notes_col_idx' = NotesColIdx(HeaderCells(t))
  /\ has_name' = FALSE
  /\ row' = t[Len(t)]
  /\ active_record' = ApplyRows(active_record, t,
                                ScoreColIdx(HeaderCells(t)), NotesColIdx(HeaderCells(t)))
  /\ data' = WriteThrough(data, data_ids, Len(started), active_record')
  /\ started' = SetLast(started, active_record')
  /\ step' = "table"
  /\ ntables' = ntables + 1
  /\ UNCHANGED <<pc, text_shapes, slide_text, current_team, data_ids, df, csv,
                 started_team>>

\* After the last slide: flush the last record, build the data frame,
\* deduplicate, write the dataset and print the summary columns.
EndDocument ==
  /\ pc = "loop"
  /\ data' = Flush(data, active_record)
  /\ data_ids' = FlushId(data_ids, active_record, Len(started))
  /\ LET frame == DataFrame(data')
     IN IF "Employee Name" \notin frame.columns
          THEN \* drop_duplicates raises KeyError
               /\ df' = frame
               /\ csv' = csv
               /\ pc' = "error"
          ELSE /\ df' = DataFrame(DropDuplicates(frame.rows, {})) 
               /\ csv' = [written |-> TRUE, columns |-> df'.columns, rows |-> df'.rows]
               /\ pc' = IF PrintedColumns \subseteq df'.columns THEN "done" ELSE "error"
  /\ step' = "end"
  /\ UNCHANGED <<text_shapes, slide_text, current_team, table, header_cells,
                 score_col_idx, notes_col_idx, has_name, row, active_record,
                 started, started_team, ntables>>

Next ==
  \/ \E shapes \in SlideShapes : NextSlide(shapes)
  \/ \E t \in Tables : TableSkipped(t)
  \/ \E t \in Tables : TableOrphan(t)
  \/ \E t \in Tables : TableName(t)
  \/ \E t \in Tables : TableContinuation(t)
  \/ EndDocument

Spec == Init /\ [][Next]_vars

\* ------------------------------------------- column inference on its own
\* The header scan of the table classifier applied to every header row of
\* at most MaxHeaderLen cells.
InitColumns ==
  /\ pc = "header"
  /\ text_shapes = <<>>
  /\ slide_text = <<>>
  /\ current_team = sUnassigned
  /\ table \in {<<hr, <<>> >> : hr \in HeaderRows}
  /\ header_cells = <<>>
  /\ score_col_idx = -1
  /\ notes_col_idx = -1
  /\ has_name = FALSE
  /\ row = <<>>
  /\ active_record = None
  /\ data = <<>>
  /\ data_ids = <<>>
  /\ df = DataFrame(<<>>)
  /\ csv = NoFile
  /\ step = "start"
  /\ started = <<>>
  /\ started_team = <<>>
  /\ ntables = 0

InferColumns ==
  /\ pc = "header"
  /\ header_cells' = HeaderCells(table)
  /\ score_col_idx' = ScoreColIdx(HeaderCells(table))
  /\ notes_col_idx' = NotesColIdx(HeaderCells(table))
  /\ pc' = "columns"
  /\ UNCHANGED <<text_shapes, slide_text, current_team, table, has_name, row,
                 active_record, data, data_ids, df, csv, step, started,
                 started_team, ntables>>

NextColumns == InferColumns

SpecColumns == InitColumns /\ [][NextColumns]_vars


\* ------------------------------------------- team detection on its own
\* One slide of at most MaxTeamShapes text shapes, entered under every team,
\* with shape texts at the length limits of the detector.
xBattDev == <<"B", "a", "t", "t", " ", "D", "e", "v">>
xBatt == <<"B", "a", "t", "t">>
Pad(n) == [k \in 1..n |-> "x"]
\* a text of n characters that starts with the given text
PadTo(text, n) == text \o Pad(n - Len(text))

TeamTexts == {sQAQC, sRnD, xBattDev, sBatteryDevelopment, sProduction, xOverview,
              xBatt, xDev,
              PadTo(sQAQC, 98), PadTo(sQAQC, 99), PadTo(sRnD, 98), PadTo(sRnD, 99),
              PadTo(xBattDev, 98), PadTo(xBattDev, 99),
              PadTo(sProduction, 48), PadTo(sProduction, 49)}
TeamShapes == SeqsUpTo(TeamTexts, MaxTeamShapes)
Teams == {sUnassigned, sQAQC, sRnD, sBatteryDevelopment, sProduction}

InitTeam ==
  /\ pc = "loop"
  /\ text_shapes = <<>>
  /\ slide_text = <<>>
  /\ current_team \in Teams
  /\ table = <<>>
  /\ header_cells = <<>>
  /\ score_col_idx = -1
  /\ notes_col_idx = -1
  /\ has_name = FALSE
  /\ row = <<>>
  /\ active_record = None
  /\ data = <<>>
  /\ data_ids = <<>>
  /\ df = DataFrame(<<>>)
  /\ csv = NoFile
  /\ step = "start"
  /\ started = <<>>
  /\ started_team = <<>>
  /\ ntables = 0

NextTeam == \E shapes \in TeamShapes : step = "start" /\ NextSlide(shapes)

SpecTeam == InitTeam /\ [][NextTeam]_vars

\* ------------------------------------------- field extraction on its own
\* One row, built from a label cell and a tail of further cells, applied to
\* an active record under every pair of column indices up to MaxColIdx,
\* while an earlier record is in the output list.
xQualityNotes == <<"Q", "u", "a", "l", "i", "t", "y", " ", "N", "o", "t", "e", "s">>
xRoleSkill == <<"R", "o", "l", "e", " ", "S", "k", "i", "l", "l">>
xTeamwork == <<"T", "e", "a", "m", "w", "o", "r", "k">>
xOverallScore == <<"O", "v", "e", "r", "a", "l", "l", " ", "S", "c", "o", "r", "e">>
xManagerComments == <<"M", "a", "n", "a", "g", "e", "r", " ", "C", "o", "m", "m", "e", "n", "t", "s">>
xProductivity == <<"P", "r", "o", "d", "u", "c", "t", "i", "v", "i", "t", "y">>
xAttendance == <<"A", "t", "t", "e", "n", "d", "a", "n", "c", "e">>
xSkill == <<"S", "k", "i", "l", "l">>
xEmployeeNbspName == <<"E", "m", "p", "l", "o", "y", "e", "e", NBSP, "N", "a", "m", "e">>
x42of5 == <<"4", ".", "2", "/", "5">>
x42pct == <<"4", "2", "%">>
x42 == <<"4", ".", "2">>
x3 == <<"3">>
xOk == <<"o", "k">>
xFair == <<"f", "a", "i", "r">>
xLate == <<"l", "a", "t", "e">>
xEve == <<"E", "v", "e">>

RowLabels == {xEmployeeName, xEmployeeNbspName, xRole, xRoleSkill, xQuality,
              xQualityNotes, xProductivity, xAttendance, xSkill, xTeamwork,
              xWeightedFinalScore, xRecommendedSalaryIncrease, xManagerComments,
              xNotes, xOverallScore, xCategory}
RowTails == {<<>>, <<x42of5>>, <<x42pct, x42>>, <<x45, xGood>>,
             <<x3, xOk, xFair>>, <<x3, xOk, xFair, xLate>>,
             <<x3, xOk, xFair, xLate, xNA>>}
Rows == {<<>>} \cup {<<label>> \o tail : label \in RowLabels, tail \in RowTails}

rFlushed == ApplyRows(NewRecord(sQAQC), tBobRole, -1, -1)
rFull ==
  [f \in Fields |->
     IF f \in ScoreFields THEN Float(<<"3">>, <<>>)
     ELSE IF f = "Employee Name" THEN xAlice
     ELSE IF f = "Team" THEN sRnD
     ELSE xDev]
ActiveRecords == {NewRecord(sRnD), rFull}

InitRow ==
  /\ pc = "row"
  /\ text_shapes = <<>>
  /\ slide_text = <<>>
  /\ current_team = sRnD
  /\ table = <<>>
  /\ header_cells = <<>>
  /\ score_col_idx \in -1..MaxColIdx
  /\ notes_col_idx \in -1..MaxColIdx
  /\ has_name = FALSE
  /\ row \in Rows
  /\ active_record \in ActiveRecords
  /\ data = <<rFlushed>>
  /\ data_ids = <<1>>
  /\ df = DataFrame(<<>>)
  /\ csv = NoFile
  /\ step = "table"
  /\ started = <<rFlushed, active_record>>
  /\ started_team = <<sQAQC, sRnD>>
  /\ ntables = 0

\* one iteration of the row loop
ProcessRow ==
  /\ pc = "row"
  /\ active_record' = ApplyRow(active_record, row, score_col_idx, notes_col_idx)
  /\ data' = WriteThrough(data, data_ids, Len(started), active_record')
  /\ started' = SetLast(started, active_record')
  /\ pc' = "row_done"
  /\ UNCHANGED <<text_shapes, slide_text, current_team, table, header_cells,
                 score_col_idx, notes_col_idx, has_name, row, data_ids, df, csv,
                 step, started_team, ntables>>

NextRow == ProcessRow

SpecRow == InitRow /\ [][NextRow]_vars

\* ------------------------------------------- tables with non-breaking spaces
\* The run over documents whose tables include one whose name row is written
\* with a non-breaking space ("Employee\xa0Name").
tEveNbsp == << <<xEmployeeNbspName, xEve>>, <<xRole, xDev>> >>

TablesNbsp == {tAlice, tBob, tScores, tEveNbsp}

NextNbsp ==
  \/ \E shapes \in SlideShapes : NextSlide(shapes)
  \/ \E t \in TablesNbsp : TableSkipped(t)
  \/ \E t \in TablesNbsp : TableOrphan(t)
  \/ \E t \in TablesNbsp : TableName(t)
  \/ \E t \in TablesNbsp : TableContinuation(t)
  \/ EndDocument

SpecNbsp == Init /\ [][NextNbsp]_vars


\* ================================================================== claims
NameOf(rec) == rec["Employee Name"]
AllButLast(s) == SubSeq(s, 1, Len(s) - 1)

\* a name that is non-empty after trimming and is not "Unassigned"
NameOK(rec) ==
  /\ "Employee Name" \in DOMAIN rec
  /\ \E k \in 1..Len(NameOf(rec)) : NameOf(rec)[k] \notin SpaceChars
  /\ NameOf(rec) # sUnassigned

\* C1: the output list is, in creation order, exactly the records whose
\* EmployeeName is valid when they are superseded (while the slides are
\* walked: every record but the active one) or when the document ends
\* (every record), each once.
C1_FlushedInStartOrder ==
  /\ pc = "loop" => data = SelectSeq(AllButLast(started), NameOK)
  /\ pc \in {"done", "error"} => data = SelectSeq(started, NameOK)

C1_Witness ==
  /\ step = "end"
  /\ Len(started) = 3
  /\ ~NameOK(started[2])
  /\ Len(data) = 2

\* C2: the Team of every record, active or flushed, is the value current_team
\* had when the record was created, whatever slides and rows came later.
C2_TeamFixedAtCreation ==
  /\ Len(started_team) = Len(started)
  /\ \A k \in 1..Len(started) : started[k]["Team"] = started_team[k]
  /\ active_record # None => active_record = started[Len(started)]
  /\ \A j \in 1..Len(data) :
        \E k \in 1..Len(started) :
           /\ data[j] = started[k]
           /\ data[j]["Team"] = started_team[k]

C2_Witness ==
  /\ step = "table"
  /\ ~has_name
  /\ Len(data) >= 1
  /\ data[1]["Team"] # current_team
  /\ active_record # None
  /\ active_record["Team"] # current_team
  /\ "Weighted Score" \in DOMAIN active_record

\* C3: every record of the output list, and of the emitted dataset, has an
\* EmployeeName that is non-empty after trimming and is not "Unassigned", and
\* a step never appends an active record without such a name.
C3_OnlyValidNamesFlushed ==
  /\ [](/\ \A j \in 1..Len(data) : NameOK(data[j])
        /\ \A j \in 1..Len(csv.rows) : NameOK(csv.rows[j]))
  /\ [][(active_record = None \/ ~NameOK(active_record)) => data' = data]_vars

C3_Witness ==
  /\ Len(started) = 3
  /\ NameOf(started[1]) = sUnassigned
  /\ NameOf(started[2]) = <<>>
  /\ NameOK(started[3])
  /\ csv.written
  /\ Len(csv.rows) = 1

\* C4: every record of the emitted dataset carries all 16 fields, none of
\* them missing or null: a field no row populated holds its default.
C4_AllFieldsCarried ==
  csv.written =>
    /\ csv.columns = Fields
    /\ \A k \in 1..Len(csv.rows) : \A f \in Fields : ~IsNaN(csv, k, f)

\* C5: the run never ends in an error, whatever the document holds.
C5_NeverRaises == pc # "error"

\* C6: the emitted dataset is the output list with only the first record of
\* each EmployeeName kept, in flush order, and holds no name twice.
FirstOfName == {j \in 1..Len(data) : \A k \in 1..(j - 1) : NameOf(data[k]) # NameOf(data[j])}
RankOfFirst(j) == Cardinality({k \in FirstOfName : k <= j})

C6_FirstPerNameKept ==
  csv.written =>
    /\ Len(csv.rows) = Cardinality(FirstOfName)
    /\ \A j \in FirstOfName : csv.rows[RankOfFirst(j)] = data[j]
    /\ \A a, b \in 1..Len(csv.rows) :
          NameOf(csv.rows[a]) = NameOf(csv.rows[b]) => a = b

C6_Witness ==
  /\ csv.written
  /\ Len(data) = 3
  /\ NameOf(data[1]) = NameOf(data[3])
  /\ NameOf(data[1]) # NameOf(data[2])
  /\ data[1] # data[3]
  /\ Len(csv.rows) = 2

\* the record the table tAlice builds under team "R&D", with a given score
AliceRecord(score) ==
  ("Employee Name" :> xAlice) @@ ("Team" :> sRnD)
     @@ ("Quality Score" :> score) @@ ("Quality Notes" :> xGood)

\* a step that takes a table whose rows include a name row
NameRowTableStep == ntables' = ntables + 1 /\ HasNameRow(table')

\* a step that flushes the active record if its name is valid and starts a
\* new record with the current team
RecordStartStep ==
  /\ Len(started') = Len(started) + 1
  /\ data' = IF active_record # None /\ NameOK(active_record)
             THEN Append(data, active_record) ELSE data
  /\ active_record'["Team"] = current_team

\* C7 (as stated): every table with a name row is a record-start marker, also
\* when the name row is its only row.
C7_EveryNameRowTableStarts == [][NameRowTableStep => RecordStartStep]_vars

\* C7 (amended): a table with a name row is a record-start marker when it has
\* at least 2 rows and is skipped otherwise; in the end-to-end scenario the
\* one-row table for Bob leaves Alice's record active, and the end of the
\* document flushes it, so the output is Alice alone.
C7_NameRowTableOfTwoRowsStarts ==
  /\ [][NameRowTableStep =>
          IF Len(table') >= 2 THEN RecordStartStep
          ELSE UNCHANGED <<active_record, data, started, current_team>>]_vars
  /\ []((step = "end" /\ table = tBob /\ started = <<AliceRecord(Zero)>>)
          => data = <<AliceRecord(Zero)>>)

C7_Witness ==
  /\ step = "end"
  /\ table = tBob
  /\ ntables = 2
  /\ started = <<AliceRecord(Zero)>>
  /\ data = <<AliceRecord(Zero)>>

\* the first record was just started by the table tAlice under team "R&D"
AliceTableDone ==
  step = "table" /\ table = tAlice /\ current_team = sRnD /\ Len(started) = 1

\* C8 (as stated): the rows of tAlice give the record Alice, "R&D", Quality
\* Score 4.5, Quality Notes "good", with nothing flushed.
C8_AliceScoreFromCell1 ==
  AliceTableDone =>
    active_record = AliceRecord(Float(<<"4">>, <<"5">>)) /\ data = <<>>

\* C8 (amended): the rows of tAlice give the record Alice, "R&D", Quality
\* Score 0.0 (cell 1 of the three-cell row holds no "%"), Quality Notes
\* "good" (the last cell), with nothing flushed.
C8_AliceScoreZero ==
  AliceTableDone => active_record = AliceRecord(Zero) /\ data = <<>>

C8_Witness == AliceTableDone /\ active_record = AliceRecord(Zero)

HeaderIdx == 0..(Len(header_cells) - 1)
RatingCells ==
  {idx \in HeaderIdx : \E k \in {kPerformance, kQuantification, kRating} :
                          Contains(header_cells[idx + 1], k)}
WeightCells == {idx \in HeaderIdx : Contains(header_cells[idx + 1], kWeight)}
ScoreCells ==
  {idx \in HeaderIdx : /\ Contains(header_cells[idx + 1], kScore)
                       /\ ~Contains(header_cells[idx + 1], kReason)}
WeightAndScoreHeader ==
  pc = "columns" /\ RatingCells = {} /\ WeightCells # {} /\ ScoreCells # {}
CategoryWeightScore == <<Lower(xCategory), Lower(xWeightPct), Lower(xScore)>>

\* C9 (as stated): with no rating header and both a "weight" and a "score"
\* header, score_col_idx is the index of a "weight" cell; it is 1 for
\* ["Category", "Weight %", "Score"].
C9_WeightBeatsScore ==
  WeightAndScoreHeader =>
    /\ score_col_idx \in WeightCells
    /\ (header_cells = CategoryWeightScore => score_col_idx = 1)

\* C9 (amended): with no rating header and both a "weight" and a "score"
\* header, score_col_idx is the index of the last cell that is a "weight" or
\* a "score" cell; it is 2 for ["Category", "Weight %", "Score"].
C9_LastWeightOrScoreWins ==
  WeightAndScoreHeader =>
    /\ score_col_idx \in WeightCells \cup ScoreCells
    /\ \A idx \in WeightCells \cup ScoreCells : idx <= score_col_idx
    /\ (header_cells = CategoryWeightScore => score_col_idx = 2)

C9_Witness ==
  /\ pc = "columns"
  /\ header_cells = CategoryWeightScore
  /\ score_col_idx = 2

\* no rule of the team detector matches the text
NoTeamRule(text) ==
  LET low == Lower(text)
  IN /\ ~(Contains(low, kQaqc) /\ Len(text) < 100)
     /\ ~(Contains(low, kRnd) /\ Len(text) < 100)
     /\ ~((Contains(low, kBattDev) \/ Contains(low, kBatteryDevelopment)) /\ Len(text) < 100)
     /\ ~(Contains(low, kProduction) /\ Len(text) < 50)

\* C10: current_team changes only when a slide's text is evaluated, it is
\* kept by a slide whose text matches no team rule, and a record started
\* afterwards gets it.
C10_TeamSticky ==
  [][/\ (step' # "slide" => current_team' = current_team)
     /\ (step' = "slide" /\ NoTeamRule(slide_text')) => current_team' = current_team
     /\ (Len(started') = Len(started) + 1 => active_record'["Team"] = current_team')]_vars

C10_Witness ==
  /\ step = "table"
  /\ ntables = 1
  /\ slide_text = xOverview \o <<" ">>
  /\ current_team = sQAQC
  /\ Len(started) = 1
  /\ active_record["Team"] = sQAQC

\* the rules of the team detector, in their fixed order, on a text
TeamRule(text, team) ==
  LET low == Lower(text)
      n   == Len(text)
  IN CASE Contains(low, kQaqc) /\ n < 100 -> sQAQC
       [] ~Contains(low, kQaqc) /\ Contains(low, kRnd) /\ n < 100 -> sRnD
       [] /\ ~Contains(low, kQaqc) /\ ~Contains(low, kRnd)
          /\ (Contains(low, kBattDev) \/ Contains(low, kBatteryDevelopment))
          /\ n < 100 -> sBatteryDevelopment
       [] /\ n < 50
          /\ ~Contains(low, kQaqc) /\ ~Contains(low, kRnd)
          /\ ~Contains(low, kBattDev) /\ ~Contains(low, kBatteryDevelopment)
          /\ Contains(low, kProduction) -> sProduction
       [] OTHER -> team

\* the texts of the shapes one after the other
RECURSIVE Concatenation(_)
Concatenation(texts) ==
  IF texts = <<>> THEN <<>> ELSE texts[1] \o Concatenation(Tail(texts))

\* the texts of the shapes, each followed by one space
RECURSIVE SpacedConcatenation(_)
SpacedConcatenation(texts) ==
  IF texts = <<>> THEN <<>>
  ELSE texts[1] \o <<" ">> \o SpacedConcatenation(Tail(texts))

\* C11 (as stated): a slide sets the team by the first matching rule on the
\* concatenation of its shapes' texts and the length of that concatenation.
C11_RulesOnConcatenation ==
  [][step' = "slide" =>
       current_team' = TeamRule(Concatenation(text_shapes'), current_team)]_vars

\* C11 (amended): a slide sets the team by the first matching rule on its
\* shapes' texts each followed by one space, and the length of that text.
C11_RulesOnSpacedConcatenation ==
  [][step' = "slide" =>
       /\ slide_text' = SpacedConcatenation(text_shapes')
       /\ current_team' = TeamRule(slide_text', current_team)]_vars

C11_Witness ==
  /\ step = "slide"
  /\ text_shapes = <<PadTo(sQAQC, 99)>>
  /\ Len(slide_text) = 100
  /\ current_team = sProduction

\* the keywords of the row categories, in their fixed order, and the fields
\* each category writes
CatKeywords ==
  << {kEmployeeName}, {kRole}, {kQuality}, {kProductivity}, {kAttendance},
     {kSkill}, {kTeamwork}, {kWeightedFinalScore}, {kRecommendedSalaryIncrease},
     {kManagerComments, kNotes} >>
CatFields ==
  << {"Employee Name"}, {"Role"}, {"Quality Score", "Quality Notes"},
     {"Productivity Score", "Productivity Notes"},
     {"Attendance Score", "Attendance Notes"}, {"Skill Score", "Skill Notes"},
     {"Teamwork Score", "Teamwork Notes"}, {"Weighted Score"},
     {"Salary Increase"}, {"Manager Notes"} >>
CatScoreField ==
  << "", "", "Quality Score", "Productivity Score", "Attendance Score",
     "Skill Score", "Teamwork Score", "Weighted Score" >>
CatNotesField ==
  << "", "", "Quality Notes", "Productivity Notes", "Attendance Notes",
     "Skill Notes", "Teamwork Notes" >>

\* the normalized cells of a row and its lowercased label
CellsOf(r) == [j \in 1..Len(r) |-> clean_text(r[j])]
LabelOf(r) == Lower(CellsOf(r)[1])

\* the first category whose keyword the label contains; 0 if none does
MatchingCats(r) ==
  {c \in 1..Len(CatKeywords) : \E kw \in CatKeywords[c] : Contains(LabelOf(r), kw)}
FirstCat(r) ==
  IF MatchingCats(r) = {} THEN 0
  ELSE CHOOSE c \in MatchingCats(r) : \A d \in MatchingCats(r) : c <= d

\* field f is the same, present or absent, before and after the step
SameField(f) ==
  /\ (f \in DOMAIN active_record') = (f \in DOMAIN active_record)
  /\ f \in DOMAIN active_record => active_record'[f] = active_record[f]

RowStep == pc = "row" /\ pc' = "row_done"

\* C12: a row whose label contains none of the keywords leaves the active
\* record, the output list and current_team as they were.
C12_UnmatchedRowIsNoOp ==
  [][(RowStep /\ Len(row) > 0 /\ FirstCat(row) = 0)
       => UNCHANGED <<active_record, data, current_team>>]_vars

C12_Witness ==
  /\ pc = "row_done"
  /\ row = <<xOverallScore, x45, xGood>>
  /\ score_col_idx = 1
  /\ notes_col_idx = 2
  /\ active_record = NewRecord(sRnD)
  /\ data = <<rFlushed>>

\* the value of getScore(cells, idx) by the order of its cases
ScoreByCases(cells, idx) ==
  IF idx \in 0..(Len(cells) - 1) THEN extract_score(cells[idx + 1])
  ELSE IF Len(cells) = 2 THEN extract_score(cells[2])
  ELSE IF Len(cells) > 2 /\ "%" \in {cells[2][k] : k \in 1..Len(cells[2])}
    THEN extract_score(cells[3])
  ELSE Zero

FourPointTwo == Float(<<"4">>, <<"2">>)

\* C13: the score a category row or the weighted-score row stores is the
\* parse of cells[idx] for a valid idx, else of cell 1 in a 2-cell row, else
\* of cell 2 when cell 1 holds "%", else 0.0; ["Quality","4.2/5"] and
\* ["Quality","42%","4.2"] give 4.2 under idx -1.
C13_GetScoreOrder ==
  [][RowStep =>
       /\ (Len(row) > 0 /\ FirstCat(row) \in 3..8)
            => active_record'[CatScoreField[FirstCat(row)]]
                 = ScoreByCases(CellsOf(row), score_col_idx)
       /\ (row \in {<<xQuality, x42of5>>, <<xQuality, x42pct, x42>>}
             /\ score_col_idx = -1)
            => active_record'["Quality Score"] = FourPointTwo]_vars

C13_Witness ==
  /\ pc = "row_done"
  /\ row = <<xQuality, x42pct, x42>>
  /\ score_col_idx = 4
  /\ active_record["Quality Score"] = FourPointTwo

\* the value of getNotes(cells, idx) with the last-cell fallback for every
\* invalid idx
NotesAnyInvalid(cells, idx) ==
  IF idx \in 0..(Len(cells) - 1) THEN cells[idx + 1]
  ELSE IF Len(cells) > 4 THEN cells[5]
  ELSE IF Len(cells) > 2 THEN cells[Len(cells)]
  ELSE <<>>

\* the value of getNotes(cells, idx) with the last-cell fallback for idx -1
NotesMinusOneOnly(cells, idx) ==
  IF idx \in 0..(Len(cells) - 1) THEN cells[idx + 1]
  ELSE IF Len(cells) > 4 THEN cells[5]
  ELSE IF Len(cells) > 2 /\ idx = -1 THEN cells[Len(cells)]
  ELSE <<>>

CategoryRowStep == RowStep /\ Len(row) > 0 /\ FirstCat(row) \in 3..7

\* C16 (as stated): the notes a category row stores are cells[idx] for a
\* valid idx, else cell 4 in a row of more than 4 cells, else the last cell
\* in a row of more than 2 cells whenever idx is invalid, else "".
C16_LastCellForAnyInvalidIdx ==
  [][CategoryRowStep =>
       active_record'[CatNotesField[FirstCat(row)]]
         = NotesAnyInvalid(CellsOf(row), notes_col_idx)]_vars

\* C16 (amended): as above, but the last cell is returned only when idx is
\* -1; an idx at or past the end of a row of 3 or 4 cells gives "".
C16_LastCellForMinusOneOnly ==
  [][CategoryRowStep =>
       active_record'[CatNotesField[FirstCat(row)]]
         = NotesMinusOneOnly(CellsOf(row), notes_col_idx)]_vars

C16_Witness ==
  /\ pc = "row_done"
  /\ row = <<xQuality, x45, xGood>>
  /\ notes_col_idx = 3
  /\ active_record["Quality Notes"] = <<>>

\* C17: a row writes the fields of the first category, in the fixed order,
\* whose keyword its label contains, and leaves every other field as it was.
C17_FirstCategoryOnly ==
  [][(RowStep /\ Len(row) > 0) =>
       LET c == FirstCat(row)
           written == IF c = 0 THEN {} ELSE CatFields[c]
       IN /\ \A f \in Fields \ written : SameField(f)
          /\ written \subseteq DOMAIN active_record']_vars

C17_Witness ==
  /\ pc = "row_done"
  /\ row = <<xQualityNotes, x45, xGood>>
  /\ DOMAIN active_record = {"Team", "Quality Score", "Quality Notes"}

\* C14: a flushed record is never changed afterwards: every step keeps the
\* records already in the output as they are, appends at most one record,
\* and the record it appends is the active record as it was before the step.
C14_FlushedNeverChanged ==
  [][/\ Len(data') \in {Len(data), Len(data) + 1}
     /\ \A j \in 1..Len(data) : data'[j] = data[j]
     /\ Len(data') = Len(data) + 1 => data'[Len(data')] = active_record]_vars

C14_Witness ==
  /\ step = "table"
  /\ table = tScores
  /\ ntables = 3
  /\ data = <<ApplyRows(NewRecord(sQAQC), tAlice, -1, -1)>>
  /\ current_team = sRnD
  /\ {"Employee Name", "Weighted Score"} \subseteq DOMAIN active_record
  /\ NameOf(active_record) = xBob

\* a table has just been taken from the current slide
TableStep == ntables' = ntables + 1

\* C15: a table of fewer than 2 rows, or one without a name row while no
\* record is active, changes neither the active record, nor the output list,
\* nor current_team, nor any record created so far.
C15_OrphanIsNoOp ==
  [][(TableStep /\ (Len(table') < 2
                      \/ (~HasNameRow(table') /\ active_record = None)))
       => UNCHANGED <<active_record, data, data_ids, current_team, started,
                      started_team>>]_vars

C15_Witness ==
  /\ step = "table"
  /\ table = tScores
  /\ ntables = 2
  /\ active_record = None
  /\ started = <<>>
  /\ data = <<>>

\* C19: once a record has been created an active record exists in every
\* state, and every table of at least 2 rows without a name row taken after
\* that has its rows applied to the active record, whether or not that
\* record has a valid name; a table is an orphan for lack of a record only
\* while no record has been created.
C19_ActiveRecordStays ==
  /\ [](started # <<>> => active_record # None)
  /\ [][(TableStep /\ Len(table') >= 2 /\ ~HasNameRow(table'))
          => IF started = <<>>
               THEN active_record' = None
               ELSE active_record' =
                      ApplyRows(active_record, table',
                                ScoreColIdx(HeaderCells(table')),
                                NotesColIdx(HeaderCells(table')))]_vars

C19_Witness ==
  /\ step = "table"
  /\ table = tScores
  /\ has_name = FALSE
  /\ data = <<>>
  /\ {"Employee Name", "Weighted Score"} \subseteq DOMAIN active_record
  /\ NameOf(active_record) = sUnassigned

RatingWeightScore == <<Lower(xWeightPct), Lower(xRating), Lower(xScore)>>

\* C18: when a header cell contains "performance", "quantification" or
\* "rating", score_col_idx is the index of the first such cell, whatever
\* "score" and "weight" cells stand before or after it.
C18_FirstRatingCellWins ==
  (pc = "columns" /\ RatingCells # {}) =>
    /\ score_col_idx \in RatingCells
    /\ \A idx \in RatingCells : score_col_idx <= idx

C18_Witness ==
  /\ pc = "columns"
  /\ header_cells = RatingWeightScore
  /\ score_col_idx = 1

\* C20: a table without a name row (by the classifier's test on the raw,
\* lowercased first cells) that is parsed into the active record leaves the
\* record's EmployeeName as it was.
C20_ContinuationKeepsName ==
  [][(TableStep /\ Len(table') >= 2 /\ ~HasNameRow(table') /\ active_record # None)
       => SameField("Employee Name")]_vars

====
